---- MODULE Spec2Model ----
(***************************************************************************)
(* Model of the model-comparison orchestrator (ModelComparison.ts) and of  *)
(* the training / prediction / reset lifecycle of the three classifiers    *)
(* it owns: ClickbaitClassifier (naive Bayes), RandomForestClassifier and  *)
(* CNNTextClassifier.                                                      *)
(*                                                                         *)
(* Granularity: one step is one event-loop task.  An async function runs   *)
(* from one suspension point (an await on a timer or on a module load) to  *)
(* the next; promise continuations that become ready inside a task         *)
(* (a rejected trainModel promise reaching the catch block of              *)
(* trainAllModels, the continuation of trainModel after train returned)    *)
(* run in the same step.                                                   *)
(***************************************************************************)
EXTENDS Integers, Sequences, FiniteSets, TLC

\* ModelType, ModelComparison.ts:12, and the insertion order of initializeModels
Models == {"naive_bayes", "random_forest", "cnn"}

\* A variant order, forest first: C7 must tell it from modelOrder.
modelOrderForestFirst == <<"random_forest", "naive_bayes", "cnn">>

\* ModelComparison.ts:135
modelOrder == <<"naive_bayes", "random_forest", "cnn">>

\* bounds of the model
MaxOps == 2         \* trainModel calls suspended at the same time
MaxRuns == 1        \* trainAllModels calls in progress at the same time
numTrees == 2       \* RandomForestClassifier.numTrees (50 in the source)
epochs == 2         \* CNNTextClassifier.epochs (10 in the source)

\* program constants
MinTrainSamples == 4
CnnMinSamples == 10
CnnMinPerClass == 3

VARIABLES
  isTraining,        \* ModelComparison.isTraining       : Map<ModelType, boolean>
  trainingProgress,  \* ModelComparison.trainingProgress : <<>> is null, <<p>> a progress
  metrics,           \* ModelComparison.metrics          : <<>> is absent, <<mt>> stored
  isTrained,         \* BaseClassifier.isTrained of each classifier
  nbStats,           \* ClickbaitClassifier means/stds/priors: "empty" or "fitted"
  trees,             \* RandomForestClassifier.trees.length
  cnnModel,          \* CNNTextClassifier.model: <<>> is null, <<k>> a model updated by k epochs
  ops,               \* trainModel calls suspended at an await
  runs,              \* trainAllModels calls in progress, by slot
  lastCall,          \* the call or continuation that ran last, and what its caller got
  crashed,           \* an exception escaped a timer callback
  immediates,        \* data of the train-all requests whose setImmediate callback is queued
  fx,                \* a ClickbaitClassifier with its TextFeatureExtractor, on its own
  lr,                \* a LogisticRegressionClassifier, on its own
  pure               \* the last application of a function to an input, and its result

vars == <<isTraining, trainingProgress, metrics, isTrained, nbStats, trees, cnnModel,
          ops, runs, lastCall, crashed, immediates, fx, lr, pure>>

\* The orchestrator and the classifiers it owns
orchVars == <<isTraining, trainingProgress, metrics, isTrained, nbStats, trees, cnnModel,
              ops, runs, lastCall, crashed, immediates>>

----------------------------------------------------------------------------
\* Training data: only the label counts decide what train does with it.
\* Balanced sets of 'normal' / 'clickbait' samples, with or without samples
\* carrying the labels 'real' / 'fake' that RandomForestClassifier filters on.
SampleCounts == {0, 5}
LegacyCounts == {0, 2}
Datasets == {[normal |-> n, clickbait |-> n, real |-> r, fake |-> r] :
               n \in SampleCounts, r \in LegacyCounts}

Total(data) == data.normal + data.clickbait + data.real + data.fake

\* TrainingMetrics, accuracy in percent
Metric(a, t) == [accuracy |-> a, precision |-> a, recall |-> a, f1Score |-> a,
                 trainingTime |-> t]
DefaultMetrics == Metric(50, 0)
MeasuredMetrics == {Metric(100, 1)}

\* The mutable state of the orchestrator and of its classifiers as one record.
Cur == [isTraining |-> isTraining, trainingProgress |-> trainingProgress,
        metrics |-> metrics, isTrained |-> isTrained, nbStats |-> nbStats,
        trees |-> trees, cnnModel |-> cnnModel]

Install(S) ==
  /\ isTraining' = S.isTraining
  /\ trainingProgress' = S.trainingProgress
  /\ metrics' = S.metrics
  /\ isTrained' = S.isTrained
  /\ nbStats' = S.nbStats
  /\ trees' = S.trees
  /\ cnnModel' = S.cnnModel

----------------------------------------------------------------------------
\* Classifiers

\* A reset that leaves the trained flag alone: C11 must tell it from nbReset.
nbResetKeepsTrained(S) == [S EXCEPT !.nbStats = "empty"]

nbReset(S) == [S EXCEPT !.isTrained["naive_bayes"] = FALSE, !.nbStats = "empty"]
rfReset(S) == [S EXCEPT !.isTrained["random_forest"] = FALSE, !.trees = 0]
cnnReset(S) == [S EXCEPT !.isTrained["cnn"] = FALSE, !.cnnModel = <<>>]

reset(S, m) ==
  CASE m = "naive_bayes" -> nbReset(S)
    [] m = "random_forest" -> rfReset(S)
    [] m = "cnn" -> cnnReset(S)

\* The checks at the head of train: "ok" or the error thrown.
nbPrecheck(data) ==
  IF Total(data) < MinTrainSamples THEN "InsufficientData"
  ELSE IF data.normal = 0 \/ data.clickbait = 0 THEN "InsufficientData"
  ELSE "ok"

rfPrecheck(data) ==
  IF Total(data) < MinTrainSamples THEN "InsufficientData"
  ELSE IF data.real = 0 \/ data.fake = 0 THEN "InsufficientData"
  ELSE "ok"

cnnPrecheck(data) ==
  IF Total(data) < CnnMinSamples THEN "InsufficientData"
  ELSE IF data.normal < CnnMinPerClass \/ data.clickbait < CnnMinPerClass
       THEN "InsufficientData"
  ELSE "ok"

Precheck(m, data) ==
  CASE m = "naive_bayes" -> nbPrecheck(data)
    [] m = "random_forest" -> rfPrecheck(data)
    [] m = "cnn" -> cnnPrecheck(data)

\* train from its checks to its first suspension point.
\* naive Bayes: statistics and priors written, isTrained set, then the await
\* inside getValidationMetrics.
nbTrainBegin(S) ==
  [S EXCEPT !.nbStats = "fitted", !.isTrained["naive_bayes"] = TRUE,
            !.trainingProgress["naive_bayes"] = <<90>>]

\* forest: trees emptied, tree 0 built and pushed, then the 50 ms timer.
rfTrainBegin(S) ==
  [S EXCEPT !.trees = 1, !.trainingProgress["random_forest"] = <<10>>]

\* CNN: model replaced by a fresh one, epoch 0 applied, then the 50 ms timer.
cnnTrainBegin(S) ==
  [S EXCEPT !.cnnModel = <<1>>, !.trainingProgress["cnn"] = <<40>>]

trainBegin(S, m) ==
  CASE m = "naive_bayes" -> nbTrainBegin(S)
    [] m = "random_forest" -> rfTrainBegin(S)
    [] m = "cnn" -> cnnTrainBegin(S)

FirstPc(m) ==
  CASE m = "naive_bayes" -> "validate"
    [] m = "random_forest" -> "trees"
    [] m = "cnn" -> "epochs"

\* predict: "ok", or the error thrown.
nbPredict(S) == IF ~S.isTrained["naive_bayes"] THEN "ModelNotTrained" ELSE "ok"
rfPredict(S) == IF ~S.isTrained["random_forest"] THEN "ModelNotTrained" ELSE "ok"
cnnPredict(S) ==
  IF ~S.isTrained["cnn"] \/ S.cnnModel = <<>> THEN "ModelNotTrained" ELSE "ok"

predict(S, m) ==
  CASE m = "naive_bayes" -> nbPredict(S)
    [] m = "random_forest" -> rfPredict(S)
    [] m = "cnn" -> cnnPredict(S)

\* train resumed at its suspension point.  status "running": suspended again
\* (i is the loop index it resumes with); "success": train returns metrics;
\* "error": train throws.  stop: the CNN early-stop test.
nbResume(S, op) ==
  IF nbPredict(S) = "ok"
  THEN [S |-> [S EXCEPT !.trainingProgress["naive_bayes"] = <<100>>],
        status |-> "success", i |-> op.i]
  ELSE [S |-> S, status |-> "error", i |-> op.i]

rfResume(S, op) ==
  IF op.i < numTrees
  THEN [S |-> [S EXCEPT !.trees = @ + 1,
                        !.trainingProgress["random_forest"] =
                            <<10 + ((op.i * 80) \div numTrees)>>],
        status |-> "running", i |-> op.i + 1]
  ELSE [S |-> [S EXCEPT !.isTrained["random_forest"] = TRUE,
                        !.trainingProgress["random_forest"] = <<100>>],
        status |-> "success", i |-> op.i]

cnnResume(S, op, stop) ==
  IF op.i < epochs /\ ~stop
  THEN [S |-> [S EXCEPT !.cnnModel = IF @ = <<>> THEN @ ELSE <<@[1] + 1>>,
                        !.trainingProgress["cnn"] =
                            <<40 + ((op.i * 50) \div epochs)>>],
        status |-> "running", i |-> op.i + 1]
  ELSE LET S1 == [S EXCEPT !.isTrained["cnn"] = TRUE,
                           !.trainingProgress["cnn"] = <<95>>]
       IN IF cnnPredict(S1) = "ok"
          THEN [S |-> [S1 EXCEPT !.trainingProgress["cnn"] = <<100>>],
                status |-> "success", i |-> op.i]
          ELSE [S |-> S1, status |-> "error", i |-> op.i]

resume(S, op, stop) ==
  CASE op.model = "naive_bayes" -> nbResume(S, op)
    [] op.model = "random_forest" -> rfResume(S, op)
    [] op.model = "cnn" -> cnnResume(S, op, stop)

----------------------------------------------------------------------------
\* Orchestrator

\* A variant catch block that clears the flags of every model: C8 must tell
\* it from trainModelCatch.
trainModelCatchClearsAll(S, m) ==
  [S EXCEPT !.isTraining = [x \in Models |-> FALSE],
            !.trainingProgress = [x \in Models |-> <<>>]]

trainModelCatch(S, m) ==
  [S EXCEPT !.isTraining[m] = FALSE, !.trainingProgress[m] = <<>>]

trainModelThen(S, m, mt) ==
  [S EXCEPT !.metrics[m] = <<mt>>, !.isTraining[m] = FALSE,
            !.trainingProgress[m] = <<>>]

\* trainModel from the call to the first suspension point of train.
trainModel(S, m, data) ==
  IF S.isTraining[m]
  THEN [S |-> S, outcome |-> "AlreadyTraining"]
  ELSE LET S1 == [S EXCEPT !.isTraining[m] = TRUE]
       IN IF Precheck(m, data) # "ok"
          THEN [S |-> trainModelCatch(S1, m), outcome |-> Precheck(m, data)]
          ELSE [S |-> trainBegin(S1, m), outcome |-> "started"]

\* A variant reset that keeps the stored metrics: C10 must tell it from
\* resetModel.
resetModelKeepsMetrics(S, m) ==
  LET S1 == reset(S, m)
  IN [S1 EXCEPT !.isTraining[m] = FALSE, !.trainingProgress[m] = <<>>]

resetModel(S, m) ==
  LET S1 == reset(S, m)
  IN [S1 EXCEPT !.isTraining[m] = FALSE, !.trainingProgress[m] = <<>>,
                !.metrics[m] = <<>>]

resetAllModels(S) ==
  LET S1 == reset(reset(reset(S, "naive_bayes"), "random_forest"), "cnn")
  IN [S1 EXCEPT !.isTraining = [m \in Models |-> FALSE],
                !.trainingProgress = [m \in Models |-> <<>>],
                !.metrics = [m \in Models |-> <<>>]]

\* A suspended trainModel call.  caller: 0, a client; r > 0, the trainAllModels
\* run r, suspended in Promise.race on it; -1, a run whose race was settled
\* by its timer, so that nothing awaits the call any more.
\* id tells apart calls that are suspended at the same place of the same model.
NewOp(caller, m) ==
  [id |-> 0, caller |-> caller, model |-> m, pc |-> FirstPc(m), i |-> 1]

Put(O, op) ==
  LET id == CHOOSE n \in 0..Cardinality(O) :
              /\ [op EXCEPT !.id = n] \notin O
              /\ \A j \in 0..(n - 1) : [op EXCEPT !.id = j] \in O
  IN O \cup {[op EXCEPT !.id = id]}

NewRun(data) ==
  [data |-> data, attempts |-> <<>>, results |-> [m \in Models |-> <<>>],
   status |-> "running"]

\* A run whose promise has settled and whose frame is gone.
EndedRun == [data |-> [normal |-> 0, clickbait |-> 0, real |-> 0, fake |-> 0],
             attempts |-> <<>>, results |-> [m \in Models |-> <<>>],
             status |-> "ended"]

\* What is left of a run after this step, and what its caller receives in it.
Kept(run) == IF run.status = "running" THEN run ELSE EndedRun
Returned(run) ==
  IF run.status = "running" THEN <<>>
  ELSE <<[status |-> run.status, attempts |-> run.attempts, results |-> run.results]>>

\* A variant loop that does not await the race before it goes on to the next
\* model: C3 must tell it from trainAllFrom.
RECURSIVE trainAllFromNoAwait(_, _, _, _)
trainAllFromNoAwait(S, run, k, r) ==
  IF k > Len(modelOrder)
  THEN [S |-> S, run |-> [run EXCEPT !.status = "returned"], start |-> <<>>]
  ELSE LET m == modelOrder[k]
           t == trainModel(S, m, run.data)
           pending == [run EXCEPT !.attempts =
                                    Append(@, [model |-> m, settle |-> "pending"])]
       IN IF t.outcome = "started" /\ k = Len(modelOrder)
          THEN [S |-> t.S, run |-> pending, start |-> <<m>>]
          ELSE IF t.outcome = "started"
          THEN trainAllFromNoAwait(t.S, pending, k + 1, r)
          ELSE trainAllFromNoAwait(t.S,
                 [run EXCEPT !.attempts =
                               Append(@, [model |-> m, settle |-> "error"]),
                             !.results[m] = <<DefaultMetrics>>],
                 k + 1, r)

\* The loop of trainAllModels from iteration k until a trainModel call is
\* suspended or the loop ends.  r is the index of the run.
RECURSIVE trainAllFrom(_, _, _, _)
trainAllFrom(S, run, k, r) ==
  IF k > Len(modelOrder)
  THEN [S |-> S, run |-> [run EXCEPT !.status = "returned"], start |-> <<>>]
  ELSE LET m == modelOrder[k]
           t == trainModel(S, m, run.data)
       IN IF t.outcome = "started"
          THEN [S |-> t.S,
                run |-> [run EXCEPT !.attempts =
                                      Append(@, [model |-> m, settle |-> "pending"])],
                start |-> <<m>>]
          ELSE trainAllFrom(t.S,
                 [run EXCEPT !.attempts =
                               Append(@, [model |-> m, settle |-> "error"]),
                             !.results[m] = <<DefaultMetrics>>],
                 k + 1, r)

\* The race of run r settles: with metrics mt (<<mt>>), or rejected (<<>>).
raceSettled(S, run, r, settle, mtOpt) ==
  LET k == Len(run.attempts)
      m == run.attempts[k].model
      run1 == [run EXCEPT !.attempts[k].settle = settle,
                          !.results[m] = IF settle = "success" THEN mtOpt
                                         ELSE <<DefaultMetrics>>]
  IN trainAllFrom(S, run1, k + 1, r)

\* lastCall: the call or continuation c, the model it ran for, its outcome, and
\* the value a trainAllModels call returned in this step (<<>>: none).
Call(c, m, o, ret) ==
  [call |-> c, model |-> m, outcome |-> o, queried |-> {}, answered |-> {},
   returned |-> ret]

----------------------------------------------------------------------------
\* TextFeatureExtractor, and a ClickbaitClassifier seen with its extractor

\* bound of the extractor model
MaxDocs == 10       \* documents held by the TF-IDF index

\* TextFeatureExtractor.computeTfIdfVector: targetLength
targetLength == 20

\* A text is the non-empty set of its tokens that are not stop words, each
\* occurring once.
Tokens == {"a", "b"}
Texts == (SUBSET Tokens) \ {{}}

RECURSIVE GCD(_, _)
GCD(x, y) == IF y = 0 THEN x ELSE GCD(y, x % y)

\* The positive rational n / d in lowest terms.
Frac(n, d) == <<n \div GCD(n, d), d \div GCD(n, d)>>
FracLess(p, q) == p[1] * q[2] < q[1] * p[2]

\* natural.TfIdf: the number of documents and, per term, the number of
\* documents that hold it (the index keeps the documents; these counts are
\* all that idf reads).
FreshIndex == [n |-> 0, df |-> [t \in Tokens |-> 0]]

addDocument(ix, text) ==
  [n |-> ix.n + 1,
   df |-> [t \in Tokens |-> ix.df[t] + (IF t \in text THEN 1 ELSE 0)]]

\* idf(term) = 1 + ln(N / (1 + df)); ln is one-to-one and increasing, so the
\* ratio stands for the value.
idf(ix, t) == Frac(ix.n, 1 + ix.df[t])

\* listTerms(d) of a document of distinct terms: tf = 1, so tfidf = idf; the
\* values in decreasing order.
RECURSIVE listTerms(_, _)
listTerms(ix, terms) ==
  IF terms = {} THEN <<>>
  ELSE LET top == CHOOSE t \in terms :
                    \A u \in terms : ~FracLess(idf(ix, t), idf(ix, u))
       IN <<idf(ix, top)>> \o listTerms(ix, terms \ {top})

\* trainTfIdf(documents): a new index holding the documents.
RECURSIVE trainTfIdf(_)
trainTfIdf(documents) ==
  IF documents = <<>> THEN FreshIndex
  ELSE addDocument(trainTfIdf(SubSeq(documents, 1, Len(documents) - 1)),
                   documents[Len(documents)])

\* computeTfIdfVector(tokens): the document is added to the index, its terms
\* are listed, and the vector is padded with 0 (<<0, 1>>) to targetLength.
computeTfIdfVector(ix, text) ==
  LET ix1 == addDocument(ix, text)
      listed == listTerms(ix1, text)
  IN [index |-> ix1,
      vector |-> [k \in 1..targetLength |->
                    IF k <= Len(listed) THEN listed[k] ELSE <<0, 1>>]]

\* extractFeatures(text): the features computed from the text alone (here the
\* word count) and the TF-IDF vector.
extractFeatures(ix, text) ==
  LET c == computeTfIdfVector(ix, text)
  IN [index |-> c.index,
      features |-> [wordCount |-> Cardinality(text), tfidfVector |-> c.vector]]

\* Training data of the classifier: samples of a text and a label.
Sample(text, label) == [text |-> text, label |-> label]
TrainSets ==
  { <<Sample({"a"}, "normal"), Sample({"a"}, "normal"),
      Sample({"b"}, "clickbait"), Sample({"a", "b"}, "clickbait")>>,
    <<Sample({"a"}, "normal"), Sample({"b"}, "normal"),
      Sample({"b"}, "normal"), Sample({"a", "b"}, "normal")>>,
    <<Sample({"a"}, "normal"), Sample({"b"}, "clickbait")>> }

CountLabel(samples, label) ==
  Cardinality({k \in 1..Len(samples) : samples[k].label = label})

LabelCounts(samples) ==
  [normal |-> CountLabel(samples, "normal"),
   clickbait |-> CountLabel(samples, "clickbait"),
   real |-> CountLabel(samples, "real"), fake |-> CountLabel(samples, "fake")]

\* extractFeatures for each text of a sequence, in order: the index after it.
RECURSIVE extractAll(_, _)
extractAll(ix, texts) ==
  IF texts = <<>> THEN ix
  ELSE extractAll(extractFeatures(ix, Head(texts)).index, Tail(texts))

TextsOf(samples, label) ==
  LET pick[k \in 0..Len(samples)] ==
        IF k = 0 THEN <<>>
        ELSE IF samples[k].label = label THEN Append(pick[k - 1], samples[k].text)
        ELSE pick[k - 1]
  IN pick[Len(samples)]

\* What the classifier has learned.
Learned(f) == [index |-> f.index, stats |-> f.stats, prior |-> f.prior]
FreshLearned == [index |-> FreshIndex, stats |-> "empty", prior |-> <<1, 2>>]

\* A freshly constructed classifier.  pc: <<>>, or <<data>> while train is
\* suspended in getValidationMetrics.  seen: the text and the result of the
\* first extractFeatures call made on the extractor since it was constructed
\* or since train last extracted the training samples (<<>>: none yet).  last: the call
\* that ran last, the learned state it found, and its result.
fxNew ==
  [index |-> FreshIndex, isTrained |-> FALSE, stats |-> "empty", prior |-> <<1, 2>>,
   pc |-> <<>>, seen |-> <<>>,
   last |-> [op |-> "new", text |-> {}, pre |-> FreshLearned, result |-> <<>>]]

Did(f, op, text, result) ==
  [op |-> op, text |-> text, pre |-> Learned(f), result |-> result]

Remember(f, text, features) ==
  IF f.seen = <<>> THEN <<[text |-> text, features |-> features]>> ELSE f.seen

\* TextFeatureExtractor.extractFeatures called on the classifier's extractor
fxExtractFeatures(f, text) ==
  LET e == extractFeatures(f.index, text)
  IN [f EXCEPT !.index = e.index,
               !.seen = Remember(f, text, e.features),
               !.last = Did(f, "extractFeatures", text, <<e.features>>)]

\* ClickbaitClassifier.train up to the await in getValidationMetrics
fxTrain(f, data) ==
  IF nbPrecheck(LabelCounts(data)) # "ok"
  THEN [f EXCEPT !.last = Did(f, "train", {}, <<nbPrecheck(LabelCounts(data))>>)]
  ELSE LET ix0 == trainTfIdf([k \in 1..Len(data) |-> data[k].text])
           ix1 == extractAll(ix0, TextsOf(data, "normal"))
           ix2 == extractAll(ix1, TextsOf(data, "clickbait"))
       IN [f EXCEPT !.index = ix2, !.stats = "fitted",
                    !.prior = <<CountLabel(data, "normal"), Len(data)>>,
                    !.isTrained = TRUE, !.pc = <<data>>, !.seen = <<>>,
                    !.last = Did(f, "train", {}, <<"suspended">>)]

\* ClickbaitClassifier.predict
fxPredict(f, text) ==
  IF ~f.isTrained
  THEN [f EXCEPT !.last = Did(f, "predict", text, <<"ModelNotTrained">>)]
  ELSE LET e == extractFeatures(f.index, text)
       IN [f EXCEPT !.index = e.index,
                    !.seen = Remember(f, text, e.features),
                    !.last = Did(f, "predict", text, <<e.features>>)]

\* train resumed in ModelUtils.getValidationMetrics: predict on the held-out
\* samples (the fifth of the shuffled data; k is the one the shuffle left there)
fxValidate(f, k) ==
  LET data == f.pc[1]
      p == fxPredict(f, data[k].text)
  IN [p EXCEPT !.pc = <<>>,
               !.last = Did(f, "validate", {}, <<IF f.isTrained THEN "metrics"
                                                 ELSE "ModelNotTrained">>)]

\* ClickbaitClassifier.explainPrediction: predict, then getFeatureImportance
fxExplainPrediction(f, text) ==
  [fxPredict(f, text) EXCEPT !.last.op = "explainPrediction"]

\* ClickbaitClassifier.getFeatureImportance
fxGetFeatureImportance(f) ==
  [f EXCEPT !.last = Did(f, "getFeatureImportance", {},
                         <<IF f.isTrained THEN f.stats ELSE "none">>)]

\* ClickbaitClassifier.reset
fxReset(f) ==
  [f EXCEPT !.isTrained = FALSE, !.stats = "empty", !.prior = <<1, 2>>,
            !.last = Did(f, "reset", {}, <<>>)]

----------------------------------------------------------------------------
\* LogisticRegressionClassifier, on its own

\* bound of the logistic-regression model
MaxYields == 2      \* suspensions of one trainModel loop (20 in the source)

\* BaseClassifier.detectOverfitting: a gap above 0.15, in hundredths
OverfitGapPercent == 15

\* Rationals n / d with d > 0, as pairs.
RatAdd(p, q) == <<p[1] * q[2] + q[1] * p[2], p[2] * q[2]>>
RatSub(p, q) == <<p[1] * q[2] - q[1] * p[2], p[2] * q[2]>>
RatMul(p, q) == <<p[1] * q[1], p[2] * q[2]>>
RatDiv(p, q) == <<p[1] * q[2], p[2] * q[1]>>
RatEq(p, q) == p[1] * q[2] = q[1] * p[2]
RatGt(p, q) == p[1] * q[2] > q[1] * p[2]

\* Training data: n samples of each class; every sample of a class has the
\* same value of the (single) feature, an even number, so that the mean and
\* the standard deviation of a balanced set are integers.
LrCounts == {0, 1, 2, 5}
LrValues == {0, 2, 4}
LrDatasets == {[n |-> n, xNormal |-> a, xClickbait |-> b] :
                 n \in LrCounts, a \in LrValues, b \in LrValues}

\* BaseClassifier.splitDataset(data, 0.2, 42): of each class floor(0.2 * n)
\* samples go to the test set.
splitDataset(data) ==
  LET testSize == (data.n * 2) \div 10
  IN [train |-> [data EXCEPT !.n = data.n - testSize],
      test |-> [data EXCEPT !.n = testSize]]

\* normalizeFeatures: mean and standard deviation of the feature over the
\* set (std: sqrt(variance) || 1).
ISqrt(v) == CHOOSE r \in 0..v : r * r = v
stats(set) ==
  LET mean == (set.n * set.xNormal + set.n * set.xClickbait) \div (2 * set.n)
      variance == (set.n * (set.xNormal - mean) * (set.xNormal - mean)
                   + set.n * (set.xClickbait - mean) * (set.xClickbait - mean))
                  \div (2 * set.n)
  IN [mean |-> mean, std |-> IF ISqrt(variance) = 0 THEN 1 ELSE ISqrt(variance)]

\* normalizeFeatures: the statistics are stored on the model object, which is
\* created if there is none.
normalizeFeatures(model, set) ==
  IF model = <<>> THEN <<[weights |-> "none", stats |-> <<stats(set)>>]>>
  ELSE <<[model[1] EXCEPT !.stats = <<stats(set)>>]>>

\* initializeModel: this.model is replaced by a new object with weights,
\* bias, featureNames and vocabulary.
initializeModel(model) == <<[weights |-> "initial", stats |-> <<>>]>>

\* normalizeFeatureVector: the input as it is if the model holds no
\* statistics, (x - mean) / std otherwise.
normalizeFeatureVector(model, x) ==
  IF model = <<>> \/ model[1].stats = <<>> THEN <<x, 1>>
  ELSE <<x - model[1].stats[1].mean, model[1].stats[1].std>>

\* BaseClassifier.evaluateOnDataset, from the counts of its confusion matrix
evaluateOnDataset(tp, fp, tn, fn) ==
  IF tp + fp + tn + fn = 0
  THEN [accuracy |-> <<0, 1>>, precision |-> <<0, 1>>, recall |-> <<0, 1>>,
        f1Score |-> <<0, 1>>]
  ELSE LET precision == IF tp + fp > 0 THEN <<tp, tp + fp>> ELSE <<0, 1>>
           recall == IF tp + fn > 0 THEN <<tp, tp + fn>> ELSE <<0, 1>>
       IN [accuracy |-> <<tp + tn, tp + fp + tn + fn>>,
           precision |-> precision, recall |-> recall,
           f1Score |-> IF RatGt(RatAdd(precision, recall), <<0, 1>>)
                       THEN RatDiv(RatMul(<<2, 1>>, RatMul(precision, recall)),
                                   RatAdd(precision, recall))
                       ELSE <<0, 1>>]

\* A variant that looks at the accuracy gap only: C20 must tell it from
\* detectOverfitting.
detectOverfittingAccuracyOnly(trainMetrics, testMetrics) ==
  LET accuracyGap == RatSub(trainMetrics.accuracy, testMetrics.accuracy)
      f1Gap == RatSub(trainMetrics.f1Score, testMetrics.f1Score)
  IN [accuracyGap |-> accuracyGap, f1Gap |-> f1Gap,
      isOverfitting |-> RatGt(accuracyGap, <<OverfitGapPercent, 100>>)]

\* BaseClassifier.detectOverfitting
detectOverfitting(trainMetrics, testMetrics) ==
  LET accuracyGap == RatSub(trainMetrics.accuracy, testMetrics.accuracy)
      f1Gap == RatSub(trainMetrics.f1Score, testMetrics.f1Score)
  IN [accuracyGap |-> accuracyGap, f1Gap |-> f1Gap,
      isOverfitting |-> \/ RatGt(accuracyGap, <<OverfitGapPercent, 100>>)
                        \/ RatGt(f1Gap, <<OverfitGapPercent, 100>>)]

\* A freshly constructed classifier.  model: <<>> is null.  pc: <<>>, or the
\* frame of a train call suspended in trainModel.  computed: the statistics
\* normalizeFeatures computed in the last training.  last: the call that ran
\* last, its input and its result.
lrNew ==
  [model |-> <<>>, isTrained |-> FALSE, pc |-> <<>>, computed |-> <<>>,
   last |-> [op |-> "new", x |-> 0, result |-> <<>>]]

\* LogisticRegressionClassifier.train up to the first await of trainModel
lrTrain(c, data) ==
  LET sp == splitDataset(data)
  IN IF 2 * data.n < MinTrainSamples \/ sp.train.n = 0
     THEN [c EXCEPT !.last = [op |-> "train", x |-> 0, result |-> <<"InsufficientData">>]]
     ELSE LET m1 == normalizeFeatures(c.model, sp.train)
              m2 == initializeModel(m1)
          IN [c EXCEPT !.model = [m2 EXCEPT ![1].weights = "updated"],
                       !.computed = <<stats(sp.train)>>,
                       !.pc = <<[train |-> sp.train, test |-> sp.test, yields |-> 1]>>,
                       !.last = [op |-> "train", x |-> 0, result |-> <<"suspended">>]]

\* The metrics train returns: tn and tp of each set as the trained weights
\* decide them.
lrMetrics(sp, trainTn, trainTp, testTn, testTp) ==
  LET trainMetrics == evaluateOnDataset(trainTp, sp.train.n - trainTn, trainTn,
                                        sp.train.n - trainTp)
      testMetrics == evaluateOnDataset(testTp, sp.test.n - testTn, testTn,
                                       sp.test.n - testTp)
  IN [trainAccuracy |-> trainMetrics.accuracy, trainF1Score |-> trainMetrics.f1Score,
      testAccuracy |-> testMetrics.accuracy, testF1Score |-> testMetrics.f1Score,
      accuracy |-> testMetrics.accuracy, f1Score |-> testMetrics.f1Score,
      overfit |-> detectOverfitting(trainMetrics, testMetrics)]

\* train resumed after the await of trainModel.  more: the loop reaches its
\* next yield; otherwise it ends, and train evaluates the model and returns.
lrResume(c, more, trainTn, trainTp, testTn, testTp) ==
  LET fr == c.pc[1]
  IN IF c.model = <<>>
     THEN [c EXCEPT !.pc = <<>>,
                    !.last = [op |-> "resume", x |-> 0, result |-> <<"TypeError">>]]
     ELSE IF more /\ fr.yields < MaxYields
     THEN [c EXCEPT !.pc = <<[fr EXCEPT !.yields = @ + 1]>>,
                    !.last = [op |-> "resume", x |-> 0, result |-> <<"suspended">>]]
     ELSE [c EXCEPT !.pc = <<>>, !.isTrained = TRUE,
                    !.last = [op |-> "trained", x |-> 0,
                              result |-> <<lrMetrics(fr, trainTn, trainTp,
                                                     testTn, testTp)>>]]

\* LogisticRegressionClassifier.predict: the input after normalizeFeatureVector
lrPredict(c, x) ==
  IF ~c.isTrained \/ c.model = <<>>
  THEN [c EXCEPT !.last = [op |-> "predict", x |-> x, result |-> <<"ModelNotTrained">>]]
  ELSE [c EXCEPT !.last = [op |-> "predict", x |-> x,
                           result |-> <<normalizeFeatureVector(c.model, x)>>]]

\* LogisticRegressionClassifier.reset
lrReset(c) ==
  [c EXCEPT !.isTrained = FALSE, !.model = <<>>,
            !.last = [op |-> "reset", x |-> 0, result |-> <<>>]]

----------------------------------------------------------------------------
\* Functions applied to one input: train's checks, getComparisonSummary, and
\* the growing of a decision forest

\* bounds of the inputs
MaxPerClass == 6     \* samples of one class in a training set
BootstrapSize == 4   \* samples of a bootstrap sample (the size of the data)

\* RandomForestClassifier options: maxDepth (10 unless given), minSamplesSplit
maxDepth == 2
minSamplesSplit == 2

\* Training sets by their label counts, below and above every threshold.
TrainCounts == {[normal |-> n, clickbait |-> c, real |-> r, fake |-> r] :
                  n \in 0..MaxPerClass, c \in 0..MaxPerClass, r \in LegacyCounts}

\* What a model does when getComparisonSummary(text) turns to it: it is
\* untrained, or isModelTrained() holds and predict(text) throws (the CNN
\* without a model) or returns one of the labels the classifier can return.
Votes ==
  {v \in [Models -> {"untrained", "throws", "normal", "clickbait", "real", "fake"}] :
     /\ v["naive_bayes"] \in {"untrained", "normal", "clickbait"}
     /\ v["random_forest"] \in {"untrained", "real", "fake"}
     /\ v["cnn"] \in {"untrained", "throws", "normal", "clickbait"}}

\* Math.round(100 * num / den) for num >= 0, den > 0
RoundPercent(num, den) == (200 * num + den) \div (2 * den)

\* ModelComparison.getComparisonSummary: trainedModels and consensusPrediction
\* (<<>> is undefined).  predictionCounts has the keys normal and clickbait;
\* incrementing any other key leaves both counts as they are.
getComparisonSummary(hasText, votes) ==
  LET trainedModels == {m \in Models : votes[m] # "untrained"}
      predictions == {m \in trainedModels : votes[m] # "throws"}
      normal == Cardinality({m \in predictions : votes[m] = "normal"})
      clickbait == Cardinality({m \in predictions : votes[m] = "clickbait"})
      totalPredictions == Cardinality(predictions)
      max == IF clickbait > normal THEN clickbait ELSE normal
  IN [totalModels |-> Cardinality(Models),
      trainedModels |-> Cardinality(trainedModels),
      consensusPrediction |->
        IF hasText /\ Cardinality(trainedModels) > 1
        THEN <<[prediction |-> IF clickbait > normal THEN "clickbait" ELSE "normal",
                agreement |-> IF totalPredictions = 0 THEN "NaN"
                              ELSE RoundPercent(max, totalPredictions)]>>
        ELSE <<>>]

\* Decision trees.  A sample is a vector of two features and a label (0 =
\* real, 1 = fake); a bootstrap sample is a bag of samples, written in the
\* order of SampleIndex (no function below looks at the order).  With two
\* features maxFeatures = floor(sqrt(2)) = 1: selectRandomFeatures returns one
\* feature.  Thresholds are kept doubled, so that midpoints are integers.
Features == {1, 2}
Vectors == {<<x, y>> : x \in 0..2, y \in 0..1}
TreeSamples == {[v |-> v, label |-> l] : v \in Vectors, l \in {0, 1}}
SampleIndex(s) == 4 * s.v[1] + 2 * s.v[2] + s.label
Bootstraps ==
  {b \in [1..BootstrapSize -> TreeSamples] :
     \A k \in 1..(BootstrapSize - 1) : SampleIndex(b[k]) <= SampleIndex(b[k + 1])}

\* The feature selectRandomFeatures returns at the nodes of each depth.
Picks == [0..(maxDepth - 1) -> Features]

CountClass(samples, l) ==
  Cardinality({k \in 1..Len(samples) : samples[k].label = l})

calculateGini(samples) ==
  IF Len(samples) = 0 THEN <<0, 1>>
  ELSE LET n == Len(samples)
           c0 == CountClass(samples, 0)
           c1 == CountClass(samples, 1)
       IN <<n * n - c0 * c0 - c1 * c1, n * n>>

isHomogeneous(samples) ==
  \A k \in 1..Len(samples) : samples[k].label = samples[1].label

\* the first key wins only with strictly more samples
majorityClass(samples) ==
  IF CountClass(samples, 0) > CountClass(samples, 1) THEN 0 ELSE 1

splitData(samples, feature, threshold2) ==
  [left |-> SelectSeq(samples, LAMBDA s : 2 * s.v[feature] <= threshold2),
   right |-> SelectSeq(samples, LAMBDA s : 2 * s.v[feature] > threshold2)]

calculateSplitGini(samples, feature, threshold2) ==
  LET sp == splitData(samples, feature, threshold2)
  IN RatAdd(RatMul(<<Len(sp.left), Len(samples)>>, calculateGini(sp.left)),
            RatMul(<<Len(sp.right), Len(samples)>>, calculateGini(sp.right)))

\* A variant search that takes the values themselves as thresholds, the
\* largest included: C28 must tell it from findBestSplit.
findBestSplitAtValues(samples, feature) ==
  LET thresholds == {2 * samples[k].v[feature] : k \in 1..Len(samples)}
      gini(t) == calculateSplitGini(samples, feature, t)
  IN <<[feature |-> feature,
        threshold2 |-> CHOOSE t \in thresholds :
                         \A u \in thresholds :
                           /\ ~RatGt(gini(t), gini(u))
                           /\ RatEq(gini(t), gini(u)) => t <= u]>>

\* findBestSplit over one feature: the midpoints of neighbouring values, the
\* first of those with the least split gini; <<>> is null.
findBestSplit(samples, feature) ==
  LET values == {samples[k].v[feature] : k \in 1..Len(samples)}
      thresholds == {p[1] + p[2] : p \in {q \in values \X values :
                       /\ q[1] < q[2]
                       /\ ~\E d \in values : q[1] < d /\ d < q[2]}}
      gini(t) == calculateSplitGini(samples, feature, t)
  IN IF thresholds = {} THEN <<>>
     ELSE <<[feature |-> feature,
             threshold2 |-> CHOOSE t \in thresholds :
                              \A u \in thresholds :
                                /\ ~RatGt(gini(t), gini(u))
                                /\ RatEq(gini(t), gini(u)) => t <= u]>>

\* A leaf of buildTree; <<>> is an absent field.
Leaf(samples) ==
  [feature |-> -1, threshold2 |-> 0,
   prediction |-> <<IF majorityClass(samples) = 1 THEN "fake" ELSE "real">>,
   left |-> <<>>, right |-> <<>>, samples |-> Len(samples)]

RECURSIVE buildTree(_, _, _)
buildTree(samples, depth, pick) ==
  IF depth >= maxDepth \/ Len(samples) < minSamplesSplit \/ isHomogeneous(samples)
  THEN Leaf(samples)
  ELSE LET bestSplit == findBestSplit(samples, pick[depth])
       IN IF bestSplit = <<>> THEN Leaf(samples)
          ELSE LET sp == splitData(samples, bestSplit[1].feature,
                                   bestSplit[1].threshold2)
               IN [feature |-> bestSplit[1].feature,
                   threshold2 |-> bestSplit[1].threshold2,
                   prediction |-> <<>>,
                   left |-> <<buildTree(sp.left, depth + 1, pick)>>,
                   right |-> <<buildTree(sp.right, depth + 1, pick)>>,
                   samples |-> Len(samples)]

RECURSIVE predictWithTree(_, _)
predictWithTree(tree, v) ==
  IF tree.prediction # <<>> THEN (IF tree.prediction[1] = "fake" THEN 1 ELSE 0)
  ELSE IF 2 * v[tree.feature] <= tree.threshold2
  THEN (IF tree.left # <<>> THEN predictWithTree(tree.left[1], v) ELSE 0)
  ELSE (IF tree.right # <<>> THEN predictWithTree(tree.right[1], v) ELSE 1)

\* RandomForestClassifier.predict on a trained forest: the label returned
forestPredict(forest, v) ==
  LET fakeVotes == Cardinality({i \in 1..Len(forest) : predictWithTree(forest[i], v) = 1})
      realVotes == Cardinality({i \in 1..Len(forest) : predictWithTree(forest[i], v) = 0})
  IN IF fakeVotes > realVotes THEN "fake" ELSE "real"

\* The tree loop of RandomForestClassifier.train, with the bootstrap sample
\* and the feature choices of each tree, and predict on every vector after it.
growForest(bootstrap, picks) ==
  LET forest == [i \in 1..numTrees |-> buildTree(bootstrap, 0, picks[i])]
  IN [trees |-> forest,
      predictions |-> [v \in Vectors |-> forestPredict(forest, v)]]

\* BaseClassifier.splitDataset on samples.  A data set is the sequence of the
\* labels of its samples; a sample is known by its position in the data.
\* splitDataset(data, 0.2, 42): testRatio, in hundredths
testRatioPercent == 20

Layouts == {"normalFirst", "clickbaitFirst"}
LabelledData(n, c, layout) ==
  [k \in 1..(n + c) |->
     IF layout = "normalFirst"
     THEN (IF k <= n THEN "normal" ELSE "clickbait")
     ELSE (IF k <= c THEN "clickbait" ELSE "normal")]

\* [...samples].sort(() => seededRandom(...) - 0.5): a comparator that does not
\* look at its arguments leaves the order to the engine; three orders stand
\* for those it may produce.
Shuffles == {"kept", "reversed", "rotated"}
Shuffled(samples, shuffle) ==
  [k \in 1..Len(samples) |->
     CASE shuffle = "kept" -> samples[k]
       [] shuffle = "reversed" -> samples[Len(samples) + 1 - k]
       [] shuffle = "rotated" -> samples[(k % Len(samples)) + 1]]

\* data.filter(d => d.label === label), as positions
FilterLabel(data, label) ==
  LET pick[k \in 0..Len(data)] ==
        IF k = 0 THEN <<>>
        ELSE IF data[k] = label THEN Append(pick[k - 1], k) ELSE pick[k - 1]
  IN pick[Len(data)]

\* A split that keeps the test samples in the train partition as well: C21
\* must tell it from splitClass.
splitClassKeepsAll(samples, shuffle) ==
  LET shuffled == Shuffled(samples, shuffle)
      testSize == (Len(samples) * testRatioPercent) \div 100
  IN [trainData |-> shuffled, testData |-> SubSeq(shuffled, 1, testSize)]

\* splitClass(samples, ratio, seed)
splitClass(samples, shuffle) ==
  LET shuffled == Shuffled(samples, shuffle)
      testSize == (Len(samples) * testRatioPercent) \div 100
  IN [trainData |-> SubSeq(shuffled, testSize + 1, Len(samples)),
      testData |-> SubSeq(shuffled, 1, testSize)]

\* splitDataset(data, testRatio, randomSeed); classShuffle and finalShuffle
\* are the orders its sorts produce.
splitDatasetSamples(data, classShuffle, finalShuffle) ==
  LET normalSplit == splitClass(FilterLabel(data, "normal"), classShuffle)
      clickbaitSplit == splitClass(FilterLabel(data, "clickbait"), classShuffle)
      trainData == normalSplit.trainData \o clickbaitSplit.trainData
      testData == normalSplit.testData \o clickbaitSplit.testData
  IN [trainData |-> Shuffled(trainData, finalShuffle),
      testData |-> Shuffled(testData, finalShuffle),
      splitInfo |->
        [totalSamples |-> Len(data),
         trainSize |-> Len(trainData), testSize |-> Len(testData),
         classDistribution |->
           [normal |-> [train |-> Len(normalSplit.trainData),
                        test |-> Len(normalSplit.testData)],
            clickbait |-> [train |-> Len(clickbaitSplit.trainData),
                           test |-> Len(clickbaitSplit.testData)]]]]

\* No function is applied.
\* CNNTextClassifier.forward.  Numbers are integers: forward only adds,
\* multiplies and compares them.  A sequence holds maxSequenceLength word ids
\* (textToSequence pads and cuts to it); positions and filters count from 1.
numFilters == 2           \* 16 in the source
embeddingDim == 1         \* 50 in the source
maxSequenceLength == 3    \* 50 in the source
kernelSizes == <<1, 2>>   \* [3, 4, 5] in the source
MaxConvSteps == 20

WordIds == 0..1
WordSequences == [1..maxSequenceLength -> WordIds]
Embeddings == [WordIds -> [1..embeddingDim -> {1, 2}]]
ConvLayersOf(kernelSize) ==
  {[kernelSize |-> kernelSize, numFilters |-> numFilters, weights |-> w,
    biases |-> [f \in 1..numFilters |-> 0]] :
     w \in [1..numFilters -> [1..kernelSize -> [1..embeddingDim -> {-1, 1}]]]}
ConvLayerSeqs ==
  {c \in [1..Len(kernelSizes) -> UNION {ConvLayersOf(kernelSizes[b]) : b \in 1..Len(kernelSizes)}] :
     \A b \in 1..Len(kernelSizes) : c[b].kernelSize = kernelSizes[b]}
denseInputSize == Len(kernelSizes) * numFilters
DenseLayers == {[weights |-> [i \in 1..denseInputSize |-> i], biases |-> <<0>>]}
CnnModels ==
  {[embedding |-> e, convLayers |-> c, denseLayer |-> d] :
     e \in Embeddings, c \in ConvLayerSeqs, d \in DenseLayers}

\* the sum of s[1..n]
RECURSIVE SumSeq(_, _)
SumSeq(s, n) == IF n = 0 THEN 0 ELSE s[n] + SumSeq(s, n - 1)

MaxOf(S) == CHOOSE x \in S : \A y \in S : y <= x

\* step 1: the embedding of each word id; a zero vector for an unknown id
embed(model, sequence) ==
  [p \in 1..Len(sequence) |->
     IF sequence[p] \in DOMAIN model.embedding THEN model.embedding[sequence[p]]
     ELSE [k \in 1..embeddingDim |-> 0]]

maxConvSteps(embedded, convLayer) ==
  LET steps == Len(embedded) - convLayer.kernelSize + 1
  IN IF steps < MaxConvSteps THEN steps ELSE MaxConvSteps

\* the activation of filter f at position i: the sum over the window, the
\* bias, ReLU
convActivation(embedded, convLayer, i, f) ==
  LET window == [j \in 1..convLayer.kernelSize |->
                   SumSeq([k \in 1..embeddingDim |->
                             embedded[i + j - 1][k] * convLayer.weights[f][j][k]],
                          embeddingDim)]
      sum == SumSeq(window, convLayer.kernelSize) + convLayer.biases[f]
  IN IF sum > 0 THEN sum ELSE 0

\* convOutputs after the two loops: position by position, and the filters of
\* a position one after the other.  There are at most MaxConvSteps *
\* numFilters of them, fewer than the 1000 at which the loop is cut short.
convOutputs(embedded, convLayer) ==
  [n \in 1..(maxConvSteps(embedded, convLayer) * convLayer.numFilters) |->
     convActivation(embedded, convLayer,
                    ((n - 1) \div convLayer.numFilters) + 1,
                    ((n - 1) % convLayer.numFilters) + 1)]

\* The pooling C29 describes, which takes the outputs i * numFilters + f: the
\* activations of filter f.
maxPoolPerFilter(outputs, convLayer) ==
  IF Len(outputs) = 0 THEN [f \in 1..convLayer.numFilters |-> 0]
  ELSE [f \in 1..convLayer.numFilters |->
          MaxOf({outputs[n] : n \in {x \in 1..Len(outputs) :
                                       (x - 1) % convLayer.numFilters = f - 1}})]

\* max pooling: filter f takes the outputs f * poolSize + i, i < poolSize
\* (indices from 0)
maxPool(outputs, convLayer) ==
  IF Len(outputs) = 0 THEN [f \in 1..convLayer.numFilters |-> 0]
  ELSE LET q == Len(outputs) \div convLayer.numFilters
           poolSize == IF q > 1 THEN q ELSE 1
       IN [f \in 1..convLayer.numFilters |->
             LET idx == {(f - 1) * poolSize + i : i \in 0..(poolSize - 1)}
                 taken == {outputs[x + 1] : x \in {y \in idx : y < Len(outputs)}}
             IN IF taken = {} THEN 0 ELSE MaxOf(taken)]

\* step 2: the pooled features of the banks 1..b, one bank after the other
RECURSIVE pooledFeatures(_, _, _)
pooledFeatures(model, embedded, b) ==
  IF b = 0 THEN <<>>
  ELSE LET convLayer == model.convLayers[b]
       IN pooledFeatures(model, embedded, b - 1)
            \o (IF Len(embedded) < convLayer.kernelSize
                THEN [f \in 1..convLayer.numFilters |-> 0]
                ELSE maxPool(convOutputs(embedded, convLayer), convLayer))

\* steps 3 and 4 up to the sigmoid, which is increasing: the features fed to
\* the dense layer and the value the sigmoid is applied to
forward(model, sequence) ==
  LET embedded == embed(model, sequence)
      pooled == pooledFeatures(model, embedded, Len(model.convLayers))
      fed == [i \in 1..denseInputSize |-> IF i <= Len(pooled) THEN pooled[i] ELSE 0]
      n == IF Len(fed) < Len(model.denseLayer.weights) THEN Len(fed)
           ELSE Len(model.denseLayer.weights)
      sum == SumSeq([i \in 1..n |-> fed[i] * model.denseLayer.weights[i]], n)
               + model.denseLayer.biases[1]
  IN [pooledFeatures |-> fed,
      output |-> IF sum > 500 THEN 500 ELSE IF sum < -500 THEN -500 ELSE sum]

NoCall == [fn |-> "none", input |-> <<>>, output |-> <<>>]

----------------------------------------------------------------------------
\* The orchestrator after construction
OrchInit ==
  /\ isTraining = [m \in Models |-> FALSE]
  /\ trainingProgress = [m \in Models |-> <<>>]
  /\ metrics = [m \in Models |-> <<>>]
  /\ isTrained = [m \in Models |-> FALSE]
  /\ nbStats = "empty"
  /\ trees = 0
  /\ cnnModel = <<>>
  /\ ops = {}
  /\ runs = [r \in 1..MaxRuns |-> EndedRun]
  /\ lastCall = Call("new", "all", "returned", <<>>)
  /\ crashed = FALSE
  /\ immediates = <<>>

Init ==
  /\ OrchInit
  /\ fx = fxNew
  /\ lr = lrNew
  /\ pure = NoCall

\* orchestrator.trainModel(m, data) called by a client
TrainModel(m, data) ==
  /\ ~crashed
  /\ Cardinality(ops) < MaxOps
  /\ LET t == trainModel(Cur, m, data)
     IN /\ Install(t.S)
        /\ ops' = IF t.outcome = "started" THEN Put(ops, NewOp(0, m)) ELSE ops
        /\ lastCall' = Call("trainModel", m, t.outcome, <<>>)
  /\ UNCHANGED <<runs, crashed, immediates, fx, lr, pure>>

\* A suspended train is resumed; when it settles, trainModel settles, and a
\* trainAllModels run awaiting it goes on.
\* The suspended calls after a run went on: the one it started, if any.
Started(O, c, r) ==
  IF c.start = <<>> THEN O ELSE Put(O, NewOp(r, c.start[1]))

TrainResume(op, stop, mt) ==
  /\ ~crashed
  /\ op \in ops
  /\ LET m == op.model
         t == resume(Cur, op, stop)
         S1 == IF t.status = "success" THEN trainModelThen(t.S, m, mt)
               ELSE trainModelCatch(t.S, m)
         c == raceSettled(S1, runs[op.caller], op.caller, t.status, <<mt>>)
     IN IF t.status = "running"
        THEN /\ Install(t.S)
             /\ ops' = Put(ops \ {op}, [op EXCEPT !.i = t.i])
             /\ lastCall' = Call("train", m, t.status, <<>>)
             /\ UNCHANGED runs
        ELSE IF op.caller > 0
        THEN /\ Install(c.S)
             /\ ops' = Started(ops \ {op}, c, op.caller)
             /\ runs' = [runs EXCEPT ![op.caller] = Kept(c.run)]
             /\ lastCall' = Call("train", m, t.status, Returned(c.run))
        ELSE /\ Install(S1)
             /\ ops' = ops \ {op}
             /\ lastCall' = Call("train", m, t.status, <<>>)
             /\ UNCHANGED runs
  /\ UNCHANGED <<crashed, immediates, fx, lr, pure>>

\* trainAllModels(data) is called and runs to its first suspension, in slot r
trainAllModelsCalled(r, data) ==
  /\ ~crashed
  /\ Cardinality(ops) < MaxOps
  /\ runs[r].status = "ended"
  /\ \A q \in 1..(r - 1) : runs[q].status # "ended"
  /\ LET c == trainAllFrom(Cur, NewRun(data), 1, r)
     IN /\ Install(c.S)
        /\ ops' = Started(ops, c, r)
        /\ runs' = [runs EXCEPT ![r] = Kept(c.run)]
        /\ lastCall' = Call("trainAllModels", "all", c.run.status, Returned(c.run))
  /\ UNCHANGED <<crashed, fx, lr, pure>>

\* orchestrator.trainAllModels(data) called by a client
TrainAllModels(r, data) ==
  /\ trainAllModelsCalled(r, data)
  /\ UNCHANGED immediates

\* The per-model timer of trainAllModels fires while the race is pending: the
\* run goes on, the trainModel call it awaited stays suspended.
ModelTimeout(op) ==
  /\ ~crashed
  /\ op \in ops
  /\ op.caller > 0
  /\ Cardinality(ops) < MaxOps
  /\ LET r == op.caller
         c == raceSettled(Cur, runs[r], r, "timeout", <<>>)
     IN /\ Install(c.S)
        /\ ops' = Started(Put(ops \ {op}, [op EXCEPT !.caller = -1]), c, r)
        /\ runs' = [runs EXCEPT ![r] = Kept(c.run)]
        /\ lastCall' = Call("modelTimeout", op.model, "timeout", Returned(c.run))
  /\ UNCHANGED <<crashed, immediates, fx, lr, pure>>

\* The 30 s timer set by CNNTextClassifier.trainModel fires before the epoch
\* loop has cleared it: its callback throws outside of any promise.
CnnTrainingTimeout(op) ==
  /\ ~crashed
  /\ op \in ops
  /\ op.pc = "epochs"
  /\ crashed' = TRUE
  /\ lastCall' = Call("trainingTimeout", op.model, "uncaught", <<>>)
  /\ UNCHANGED <<isTraining, trainingProgress, metrics, isTrained, nbStats, trees,
                 cnnModel, ops, runs, immediates, fx, lr, pure>>

ResetModel(m) ==
  /\ ~crashed
  /\ Install(resetModel(Cur, m))
  /\ lastCall' = Call("resetModel", m, "returned", <<>>)
  /\ UNCHANGED <<ops, runs, crashed, immediates, fx, lr, pure>>

ResetAllModels ==
  /\ ~crashed
  /\ Install(resetAllModels(Cur))
  /\ lastCall' = Call("resetAllModels", "all", "returned", <<>>)
  /\ UNCHANGED <<ops, runs, crashed, immediates, fx, lr, pure>>

\* predictWithAllModels(text): the models asked, and those that answered
Queried(S) == {m \in Models : S.isTrained[m]}
Answered(S) == {m \in Queried(S) : predict(S, m) = "ok"}

PredictWithAllModels ==
  /\ ~crashed
  /\ lastCall' = [call |-> "predictWithAllModels", model |-> "all",
                  outcome |-> "returned", queried |-> Queried(Cur),
                  answered |-> Answered(Cur), returned |-> <<>>]
  /\ UNCHANGED <<isTraining, trainingProgress, metrics, isTrained, nbStats, trees,
                 cnnModel, ops, runs, crashed, immediates, fx, lr, pure>>

Next ==
  \/ \E m \in Models, data \in Datasets : TrainModel(m, data)
  \/ \E op \in ops, stop \in BOOLEAN, mt \in MeasuredMetrics : TrainResume(op, stop, mt)
  \/ \E r \in 1..MaxRuns, data \in Datasets : TrainAllModels(r, data)
  \/ \E op \in ops : ModelTimeout(op)
  \/ \E op \in ops : CnnTrainingTimeout(op)
  \/ \E m \in Models : ResetModel(m)
  \/ ResetAllModels
  \/ PredictWithAllModels

Spec == Init /\ [][Next]_vars

\* The event loop runs every continuation that is ready: a suspended train of
\* a model is resumed as long as the process lives.
Resumed(m) ==
  \E op \in {o \in ops : o.model = m}, stop \in BOOLEAN, mt \in MeasuredMetrics :
    TrainResume(op, stop, mt)

SpecLive == Spec /\ \A m \in Models : WF_vars(Resumed(m))

----------------------------------------------------------------------------
\* The route POST /models/train-all in front of the orchestrator

\* bound of the route model
MaxRequests == 2    \* train-all requests accepted and not yet finished

\* the thresholds of the route
RouteMinSamples == 8
RouteMinPerClass == 3

routePrecheck(data) ==
  IF Total(data) < RouteMinSamples THEN "tooFewSamples"
  ELSE IF data.normal < RouteMinPerClass \/ data.clickbait < RouteMinPerClass
  THEN "tooFewPerClass"
  ELSE "ok"

isAnyModelTraining(S) == \E m \in Models : S.isTraining[m]

\* What the handler answers for the stored samples data.
trainAllRoute(S, data) ==
  IF routePrecheck(data) # "ok" THEN routePrecheck(data)
  ELSE IF isAnyModelTraining(S) THEN "busy"
  ELSE "accepted"

\* The handler runs: it answers, and when it accepts it queues the callback
\* that will call trainAllModels.
TrainAllRoute(data) ==
  /\ ~crashed
  /\ Len(immediates) < MaxRequests
  /\ LET answer == trainAllRoute(Cur, data)
     IN /\ immediates' = IF answer = "accepted" THEN Append(immediates, data)
                         ELSE immediates
        /\ lastCall' = Call("trainAllRoute", "all", answer, <<>>)
  /\ UNCHANGED <<isTraining, trainingProgress, metrics, isTrained, nbStats, trees,
                 cnnModel, ops, runs, crashed, fx, lr, pure>>

\* The callback queued by setImmediate runs: it calls trainAllModels.
TrainAllImmediate(r) ==
  /\ immediates # <<>>
  /\ trainAllModelsCalled(r, Head(immediates))
  /\ immediates' = Tail(immediates)

InitRoute ==
  /\ isTraining = [m \in Models |-> FALSE]
  /\ trainingProgress = [m \in Models |-> <<>>]
  /\ metrics = [m \in Models |-> <<>>]
  /\ isTrained = [m \in Models |-> FALSE]
  /\ nbStats = "empty"
  /\ trees = 0
  /\ cnnModel = <<>>
  /\ ops = {}
  /\ runs = [r \in 1..MaxRequests |-> EndedRun]
  /\ lastCall = Call("new", "all", "returned", <<>>)
  /\ crashed = FALSE
  /\ immediates = <<>>
  /\ fx = fxNew
  /\ lr = lrNew
  /\ pure = NoCall

NextRoute ==
  \/ \E data \in Datasets : TrainAllRoute(data)
  \/ \E r \in 1..MaxRequests : TrainAllImmediate(r)
  \/ \E op \in ops, stop \in BOOLEAN, mt \in MeasuredMetrics : TrainResume(op, stop, mt)
  \/ \E op \in ops : ModelTimeout(op)

SpecRoute == InitRoute /\ [][NextRoute]_vars

----------------------------------------------------------------------------
\* A ClickbaitClassifier used directly, with its TextFeatureExtractor

FxTrain(data) ==
  /\ fx.pc = <<>>
  /\ fx' = fxTrain(fx, data)
  /\ UNCHANGED <<orchVars, lr, pure>>

FxValidate(k) ==
  /\ fx.pc # <<>>
  /\ k \in 1..Len(fx.pc[1])
  /\ fx.index.n < MaxDocs
  /\ fx' = fxValidate(fx, k)
  /\ UNCHANGED <<orchVars, lr, pure>>

FxExtractFeatures(text) ==
  /\ fx.index.n < MaxDocs
  /\ fx' = fxExtractFeatures(fx, text)
  /\ UNCHANGED <<orchVars, lr, pure>>

FxPredict(text) ==
  /\ fx.index.n < MaxDocs
  /\ fx' = fxPredict(fx, text)
  /\ UNCHANGED <<orchVars, lr, pure>>

FxExplainPrediction(text) ==
  /\ fx.index.n < MaxDocs
  /\ fx' = fxExplainPrediction(fx, text)
  /\ UNCHANGED <<orchVars, lr, pure>>

FxGetFeatureImportance ==
  /\ fx' = fxGetFeatureImportance(fx)
  /\ UNCHANGED <<orchVars, lr, pure>>

FxReset ==
  /\ fx' = fxReset(fx)
  /\ UNCHANGED <<orchVars, lr, pure>>

NextFx ==
  \/ \E data \in TrainSets : FxTrain(data)
  \/ \E k \in UNION {DOMAIN data : data \in TrainSets} : FxValidate(k)
  \/ \E text \in Texts : FxExtractFeatures(text)
  \/ \E text \in Texts : FxPredict(text)
  \/ \E text \in Texts : FxExplainPrediction(text)
  \/ FxGetFeatureImportance
  \/ FxReset

SpecFx == Init /\ [][NextFx]_vars

----------------------------------------------------------------------------
\* A LogisticRegressionClassifier used directly

LrTrain(data) ==
  /\ lr.pc = <<>>
  /\ lr' = lrTrain(lr, data)
  /\ UNCHANGED <<orchVars, fx, pure>>

LrResume(more, trainTn, trainTp, testTn, testTp) ==
  /\ lr.pc # <<>>
  /\ trainTn <= lr.pc[1].train.n /\ trainTp <= lr.pc[1].train.n
  /\ testTn <= lr.pc[1].test.n /\ testTp <= lr.pc[1].test.n
  /\ lr' = lrResume(lr, more, trainTn, trainTp, testTn, testTp)
  /\ UNCHANGED <<orchVars, fx, pure>>

LrPredict(x) ==
  /\ lr' = lrPredict(lr, x)
  /\ UNCHANGED <<orchVars, fx, pure>>

LrReset ==
  /\ lr' = lrReset(lr)
  /\ UNCHANGED <<orchVars, fx, pure>>

\* the largest number of samples of one class in a data set
LrCountMax == CHOOSE n \in LrCounts : \A k \in LrCounts : k <= n

NextLr ==
  \/ \E data \in LrDatasets : LrTrain(data)
  \/ \E more \in BOOLEAN, trainTn, trainTp, testTn, testTp \in 0..LrCountMax :
       LrResume(more, trainTn, trainTp, testTn, testTp)
  \/ \E x \in LrValues : LrPredict(x)
  \/ LrReset

SpecLr == Init /\ [][NextLr]_vars

----------------------------------------------------------------------------
\* Functions applied to one input

PureInputs ==
  {[fn |-> "train", input |-> <<m, data>>, output |-> <<>>] :
     m \in Models, data \in TrainCounts}
  \cup {[fn |-> "getComparisonSummary", input |-> <<hasText, votes>>, output |-> <<>>] :
          hasText \in BOOLEAN, votes \in Votes}
  \cup {[fn |-> "growForest", input |-> <<bootstrap, picks>>, output |-> <<>>] :
          bootstrap \in Bootstraps, picks \in [1..numTrees -> Picks]}

InitPure ==
  /\ OrchInit
  /\ fx = fxNew
  /\ lr = lrNew
  /\ pure \in PureInputs

\* train up to the end of its checks
ApplyTrain ==
  /\ pure.fn = "train" /\ pure.output = <<>>
  /\ pure' = [pure EXCEPT !.output = <<Precheck(pure.input[1], pure.input[2])>>]
  /\ UNCHANGED <<orchVars, fx, lr>>

ApplyGetComparisonSummary ==
  /\ pure.fn = "getComparisonSummary" /\ pure.output = <<>>
  /\ pure' = [pure EXCEPT !.output =
                <<getComparisonSummary(pure.input[1], pure.input[2])>>]
  /\ UNCHANGED <<orchVars, fx, lr>>

ApplyGrowForest ==
  /\ pure.fn = "growForest" /\ pure.output = <<>>
  /\ pure' = [pure EXCEPT !.output = <<growForest(pure.input[1], pure.input[2])>>]
  /\ UNCHANGED <<orchVars, fx, lr>>

NextPure ==
  \/ ApplyTrain
  \/ ApplyGetComparisonSummary
  \/ ApplyGrowForest

SpecPure == InitPure /\ [][NextPure]_vars

----------------------------------------------------------------------------
\* buildTree applied to one bootstrap sample

TreeInputs ==
  {[fn |-> "buildTree", input |-> <<bootstrap, pick>>, output |-> <<>>] :
     bootstrap \in Bootstraps, pick \in Picks}

InitTree ==
  /\ OrchInit
  /\ fx = fxNew
  /\ lr = lrNew
  /\ pure \in TreeInputs

ApplyBuildTree ==
  /\ pure.fn = "buildTree" /\ pure.output = <<>>
  /\ pure' = [pure EXCEPT !.output = <<buildTree(pure.input[1], 0, pure.input[2])>>]
  /\ UNCHANGED <<orchVars, fx, lr>>

NextTree == ApplyBuildTree

SpecTree == InitTree /\ [][NextTree]_vars

----------------------------------------------------------------------------
\* forward applied to one sequence by one model

ForwardInputs ==
  {[fn |-> "forward", input |-> <<model, sequence>>, output |-> <<>>] :
     model \in CnnModels, sequence \in WordSequences}

InitForward ==
  /\ OrchInit
  /\ fx = fxNew
  /\ lr = lrNew
  /\ pure \in ForwardInputs

ApplyForward ==
  /\ pure.fn = "forward" /\ pure.output = <<>>
  /\ pure' = [pure EXCEPT !.output = <<forward(pure.input[1], pure.input[2])>>]
  /\ UNCHANGED <<orchVars, fx, lr>>

NextForward == ApplyForward

SpecForward == InitForward /\ [][NextForward]_vars

----------------------------------------------------------------------------
\* splitDataset applied to one data set

SplitInputs ==
  {[fn |-> "splitDataset", input |-> <<LabelledData(n, c, layout), cs, fs>>,
    output |-> <<>>] :
     n \in 0..MaxPerClass, c \in 0..MaxPerClass, layout \in Layouts,
     cs \in Shuffles, fs \in Shuffles}

InitSplit ==
  /\ OrchInit
  /\ fx = fxNew
  /\ lr = lrNew
  /\ pure \in SplitInputs

ApplySplitDataset ==
  /\ pure.fn = "splitDataset" /\ pure.output = <<>>
  /\ pure' = [pure EXCEPT !.output =
                <<splitDatasetSamples(pure.input[1], pure.input[2], pure.input[3])>>]
  /\ UNCHANGED <<orchVars, fx, lr>>

NextSplit == ApplySplitDataset

SpecSplit == InitSplit /\ [][NextSplit]_vars

----------------------------------------------------------------------------
\* Vocabulary of the properties

OpsOf(m) == {op \in ops : op.model = m}

\* Everything the orchestrator and the classifier hold for model m.
Params(m) ==
  CASE m = "naive_bayes" -> <<nbStats>>
    [] m = "random_forest" -> <<trees>>
    [] m = "cnn" -> cnnModel

St(m) == <<isTraining[m], trainingProgress[m], metrics[m], isTrained[m], Params(m)>>

Idle(m) ==
  /\ ~isTraining[m]
  /\ ~isTrained[m]
  /\ trainingProgress[m] = <<>>
  /\ metrics[m] = <<>>

\* A training of m is suspended inside its loop: it has written part of the
\* parameters of this training and has more to write.
MidWrite(m) ==
  \E op \in OpsOf(m) : \/ op.pc = "trees" /\ op.i < numTrees
                       \/ op.pc = "epochs" /\ op.i < epochs

Settled == {"success", "error", "timeout"}

AttemptModels(attempts) == [k \in 1..Len(attempts) |-> attempts[k].model]

IsPrefix(s, t) == Len(s) <= Len(t) /\ \A k \in 1..Len(s) : s[k] = t[k]

\* The last step was a training of lastCall.model that failed.
TrainFailed ==
  /\ lastCall.call \in {"trainModel", "train"}
  /\ lastCall.outcome \in {"InsufficientData", "error"}

----------------------------------------------------------------------------
\* C1: under every interleaving of trainModel, trainAllModels, resetModel and
\* resetAllModels, at most one training operation is in flight for any one
\* model at a time.
C1_OneTrainingPerModel == \A m \in Models : Cardinality(OpsOf(m)) <= 1

\* C2: a trainModel(m) call made while a training of m is still in flight
\* fails with AlreadyTrainingError (and so starts nothing).
C2_BusyModelRejects ==
  lastCall.call = "trainModel" =>
    LET m == lastCall.model
        inFlightBefore == Cardinality(OpsOf(m))
                            - (IF lastCall.outcome = "started" THEN 1 ELSE 0)
    IN inFlightBefore > 0 => lastCall.outcome = "AlreadyTraining"

\* C3: a trainAllModels run never has two of its trainings pending: when it
\* starts the training of the next model, the race on every earlier model
\* has settled with success, error or timeout, and the only trainModel call
\* the run awaits is the one it started last.
C3_NextAfterPreviousSettled ==
  \A r \in 1..MaxRuns :
    runs[r].status = "running" =>
      LET a == runs[r].attempts
      IN /\ a # <<>>
         /\ a[Len(a)].settle = "pending"
         /\ \A k \in 1..(Len(a) - 1) : a[k].settle \in Settled
         /\ Cardinality({op \in ops : op.caller = r}) = 1
         /\ \A op \in ops : op.caller = r => op.model = a[Len(a)].model

\* C3 witness: a run that started the CNN after the naive Bayes race timed
\* out and the forest training succeeded.
C3_Witness ==
  \E r \in 1..MaxRuns :
    /\ runs[r].status = "running"
    /\ Len(runs[r].attempts) = 3
    /\ runs[r].attempts[1].settle = "timeout"
    /\ runs[r].attempts[2].settle = "success"

\* C4: a predict call that returns a prediction for model m never runs while
\* a training of m is between two writes of m's parameters.
C4_NoPredictionMidWrite ==
  lastCall.call = "predictWithAllModels" =>
    \A m \in lastCall.answered : ~MidWrite(m)

\* C5: predictWithAllModels asks only models that are trained and whose busy
\* flag is clear.
C5_OnlyIdleTrainedQueried ==
  lastCall.call = "predictWithAllModels" =>
    \A m \in lastCall.queried : isTrained[m] /\ ~isTraining[m]

\* What the catch of the trainAllModels loop guarantees: an attempt that ended
\* in an error or a timeout has the default metrics, and a call that returns
\* has attempted every model and returns normally.
FailuresGetDefaultMetrics ==
  /\ \A r \in 1..MaxRuns :
       runs[r].status # "ended" =>
         /\ runs[r].status = "running"
         /\ \A k \in 1..Len(runs[r].attempts) :
              runs[r].attempts[k].settle \in {"error", "timeout"} =>
                runs[r].results[runs[r].attempts[k].model] = <<DefaultMetrics>>
  /\ lastCall.returned # <<>> =>
       LET ret == lastCall.returned[1]
       IN /\ ret.status = "returned"
          /\ Len(ret.attempts) = Cardinality(Models)
          /\ \A k \in 1..Len(ret.attempts) :
               /\ ret.attempts[k].settle \in Settled
               /\ ret.attempts[k].settle \in {"error", "timeout"} =>
                    ret.results[ret.attempts[k].model] = <<DefaultMetrics>>
               /\ ret.attempts[k].settle = "success" =>
                    ret.results[ret.attempts[k].model] \in
                      {<<mt>> : mt \in MeasuredMetrics}

\* C6: in trainAllModels a model whose training threw or ran out of time gets
\* the default metrics, the loop goes on to the remaining models, and the
\* call never fails: no trainAllModels call is cut off while it awaits the
\* training of a model.
C6_FailuresDefaultedRunReturns ==
  /\ FailuresGetDefaultMetrics
  /\ \A r \in 1..MaxRuns :
       (runs[r].status = "running" /\ \E op \in ops : op.caller = r /\ op.model = "cnn")
         => ~crashed

AttemptsAfter(r) ==
  IF runs[r].status = "running" /\ runs'[r].status = "ended"
  THEN lastCall'.returned[1].attempts
  ELSE runs'[r].attempts

AttemptedInStep ==
  UNION {{AttemptsAfter(r)[k].model :
            k \in (Len(runs[r].attempts) + 1)..Len(AttemptsAfter(r))} :
         r \in {q \in 1..MaxRuns : runs[q].status = "running"}}

C9_FailedTrainLeavesUntrained == TrainFailed => ~isTrained[lastCall.model]

\* C10: resetModel(m) and resetAllModels leave every affected model idle, with
\* no stored metrics; resetModel(m) leaves all other models unchanged.
C10_ResetForcesIdle ==
  [][ /\ \A m \in Models :
           (lastCall'.call = "resetModel" /\ lastCall'.model = m) =>
             /\ Idle(m)'
             /\ \A x \in Models \ {m} : St(x)' = St(x)
      /\ lastCall'.call = "resetAllModels" => \A m \in Models : Idle(m)'
    ]_vars

\* C10 witness: a model has been reset while its training was suspended and
\* another model held metrics.
C10_Witness ==
  /\ lastCall.call = "resetModel"
  /\ OpsOf(lastCall.model) # {}
  /\ \E x \in Models \ {lastCall.model} : isTrained[x] /\ metrics[x] # <<>>

\* C11: predict on a classifier that is not trained fails with the not-trained
\* error; a classifier is not trained when it is constructed and after every
\* reset, and only a step of one of its own train calls makes it trained.
C11_UntrainedPredictFails ==
  [][ \A m \in Models :
        /\ ~isTrained[m] => predict(Cur, m) = "ModelNotTrained"
        /\ ~isTrained'[m] => predict(Cur, m)' = "ModelNotTrained"
        /\ \/ lastCall'.call = "resetModel" /\ lastCall'.model = m
           \/ lastCall'.call = "resetAllModels"
           => ~isTrained'[m]
        /\ ~isTrained[m] /\ isTrained'[m] =>
             \/ lastCall'.call \in {"trainModel", "train"} /\ lastCall'.model = m
             \/ lastCall'.call = "trainAllModels" /\ m = modelOrder[1]
    ]_vars

\* C11 witness: the naive Bayes classifier, marked trained by a train call that
\* is still suspended, has just been reset, and predict fails on it.
C11_Witness ==
  /\ lastCall.call \in {"resetModel", "resetAllModels"}
  /\ \E op \in OpsOf("naive_bayes") : op.pc = "validate"
  /\ ~isTrained["naive_bayes"]
  /\ predict(Cur, "naive_bayes") = "ModelNotTrained"

\* C12: after reset() of a classifier that had been trained the classifier
\* holds no learned state: its statistics, its priors and the term-weight
\* index of its extractor are those of a freshly constructed classifier, and
\* it is untrained.
C12_ResetClearsLearnedState ==
  fx.last.op = "reset" /\ fx.last.pre.stats = "fitted"
  => ~fx.isTrained /\ Learned(fx) = FreshLearned

\* C13: once training has completed, predict, explainPrediction and
\* getFeatureImportance leave the learned state of the classifier, the
\* term-weight index included, as they found it.
C13_ReadsLeaveLearnedState ==
  /\ fx.last.op \in {"predict", "explainPrediction", "getFeatureImportance"}
  /\ fx.isTrained /\ fx.pc = <<>>
  => Learned(fx) = fx.last.pre

\* C14: an extractFeatures call returns what the first extractFeatures call
\* with the same text returned on this extractor since the index was last
\* trained.
C14_ExtractFeaturesDeterministic ==
  /\ fx.last.op = "extractFeatures"
  /\ fx.seen # <<>> /\ fx.seen[1].text = fx.last.text
  => fx.last.result = <<fx.seen[1].features>>

\* C15: on data labelled 'normal' / 'clickbait', train fails for insufficient
\* data exactly when the data is below the thresholds of the model: fewer than
\* 4 samples or a class without a sample for naive Bayes and the forest, fewer
\* than 10 samples or a class with fewer than 3 for the CNN.
C15_RejectedIffBelowThresholds ==
  /\ pure.fn = "train" /\ pure.output # <<>>
  /\ pure.input[2].real = 0 /\ pure.input[2].fake = 0
  => LET m == pure.input[1]
         data == pure.input[2]
         below == IF m = "cnn"
                  THEN \/ Total(data) < CnnMinSamples
                       \/ data.normal < CnnMinPerClass
                       \/ data.clickbait < CnnMinPerClass
                  ELSE \/ Total(data) < MinTrainSamples
                       \/ data.normal = 0
                       \/ data.clickbait = 0
     IN pure.output[1] = "InsufficientData" <=> below

\* C16: when getComparisonSummary(text) reports a consensus, trainedModels is
\* the number of trained models, the consensus is a label that at least half
\* of the trained models predicted (a majority, or one side of a tie), and
\* agreement is the rounded percentage of the votes cast that went to it.
C16_ConsensusIsMajorityVote ==
  /\ pure.fn = "getComparisonSummary" /\ pure.output # <<>>
  /\ pure.output[1].consensusPrediction # <<>>
  => LET votes == pure.input[2]
         trained == {m \in Models : votes[m] # "untrained"}
         cast == {m \in trained : votes[m] # "throws"}
         consensus == pure.output[1].consensusPrediction[1]
         winning == {m \in trained : votes[m] = consensus.prediction}
     IN /\ pure.output[1].trainedModels = Cardinality(trained)
        /\ 2 * Cardinality(winning) >= Cardinality(trained)
        /\ consensus.agreement = RoundPercent(Cardinality(winning), Cardinality(cast))

\* C17: when the CNN's training timeout fires, the train call it belongs to
\* fails: the error is the outcome of that call, delivered to its caller, and
\* the process goes on.
C17_TimeoutFailsTheTrainCall ==
  lastCall.call = "trainingTimeout" => lastCall.outcome = "error" /\ ~crashed

\* C18: a trained logistic-regression model holds the mean and the standard
\* deviation that its training computed from the train set, and predict
\* standardizes its input with them: (x - mean) / std.
C18_PredictUsesStoredStatistics ==
  lr.isTrained /\ lr.model # <<>> /\ lr.pc = <<>>
  => /\ lr.model[1].stats = lr.computed
     /\ lr.last.op = "predict" =>
          RatEq(lr.last.result[1],
                <<lr.last.x - lr.computed[1].mean, lr.computed[1].std>>)

\* C20: in the metrics that train returns, overfit.accuracyGap is
\* trainAccuracy - testAccuracy, overfit.f1Gap is trainF1Score - testF1Score,
\* and overfit.isOverfitting holds exactly when one of the gaps is above 0.15.
C20_OverfitFromGaps ==
  lr.last.op = "trained"
  => LET m == lr.last.result[1]
     IN /\ RatEq(m.overfit.accuracyGap, RatSub(m.trainAccuracy, m.testAccuracy))
        /\ RatEq(m.overfit.f1Gap, RatSub(m.trainF1Score, m.testF1Score))
        /\ m.overfit.isOverfitting <=>
             \/ RatGt(m.overfit.accuracyGap, <<15, 100>>)
             \/ RatGt(m.overfit.f1Gap, <<15, 100>>)

\* C20 witness: train has returned metrics whose accuracy gap is at most 0.15
\* and whose F1 gap is above it, with both sets non-empty, and reports
\* overfitting.
C20_Witness ==
  /\ lr.last.op = "trained"
  /\ lr.last.result[1].overfit.isOverfitting
  /\ ~RatGt(lr.last.result[1].overfit.accuracyGap, <<15, 100>>)
  /\ RatGt(lr.last.result[1].testAccuracy, <<0, 1>>)

\* A node is a leaf with a prediction or has both children, and so are the
\* nodes below it.
RECURSIVE ValidTree(_)
ValidTree(tree) ==
  \/ tree.prediction # <<>> /\ tree.left = <<>> /\ tree.right = <<>>
  \/ /\ tree.prediction = <<>>
     /\ tree.left # <<>> /\ tree.right # <<>>
     /\ ValidTree(tree.left[1]) /\ ValidTree(tree.right[1])

RECURSIVE LeafPredictions(_)
LeafPredictions(tree) ==
  IF tree.prediction # <<>> THEN {tree.prediction[1]}
  ELSE LeafPredictions(tree.left[1]) \cup LeafPredictions(tree.right[1])

\* C19: every tree of a trained forest is structurally valid, the prediction
\* of every leaf is 'normal' or 'clickbait', and so is every prediction of the
\* forest.
C19_ValidTreesLabelsInRange ==
  pure.fn = "growForest" /\ pure.output # <<>>
  => LET forest == pure.output[1].trees
     IN /\ \A i \in DOMAIN forest :
             /\ ValidTree(forest[i])
             /\ LeafPredictions(forest[i]) \subseteq {"normal", "clickbait"}
        /\ \A v \in Vectors :
             pure.output[1].predictions[v] \in {"normal", "clickbait"}

\* Occurrences of x in the sequence s
Occurrences(s, x) == Cardinality({k \in 1..Len(s) : s[k] = x})

\* C21: splitDataset partitions its input: every sample is in exactly one of
\* trainData and testData and nothing else is; of each class
\* floor(class size * 0.2) samples are in testData.
C21_StratifiedPartition ==
  pure.fn = "splitDataset" /\ pure.output # <<>>
  => LET data == pure.input[1]
         out == pure.output[1]
         both == out.trainData \o out.testData
         OfClass(s, label) == Cardinality({k \in 1..Len(s) : data[s[k]] = label})
         Size(label) == Cardinality({k \in 1..Len(data) : data[k] = label})
     IN /\ \A k \in 1..Len(both) : both[k] \in 1..Len(data)
        /\ \A x \in 1..Len(data) : Occurrences(both, x) = 1
        /\ \A label \in {"normal", "clickbait"} :
             OfClass(out.testData, label) = Size(label) \div 5

\* C21 witness: a data set of both classes has been split; each class has at
\* least one sample in the test partition, and the classes differ in size.
C21_Witness ==
  /\ pure.fn = "splitDataset" /\ pure.output # <<>>
  /\ pure.output[1].splitInfo.classDistribution.normal.test >= 1
  /\ pure.output[1].splitInfo.classDistribution.clickbait.test >= 1
  /\ pure.output[1].splitInfo.classDistribution.normal.train
       # pure.output[1].splitInfo.classDistribution.clickbait.train
  /\ pure.input[2] = "rotated"

\* C22: a model that is training does not stay so forever: its trainModel call
\* settles and clears the busy flag.
C22_TrainingEnds == \A m \in Models : isTraining[m] ~> ~isTraining[m]

\* C23: multi-model training is guarded globally: at most one trainAllModels
\* run is in progress at a time.
RunsInProgress == {r \in DOMAIN runs : runs[r].status = "running"}

C23_OneRunAtATime == Cardinality(RunsInProgress) <= 1

\* The guard itself: a train-all request made while a model is training is
\* answered "busy", queues no callback and starts no training.
C23_BusyRequestRejected ==
  [][(lastCall'.call = "trainAllRoute" /\ isAnyModelTraining(Cur))
      => (lastCall'.outcome # "accepted"
          /\ UNCHANGED <<immediates, ops, runs, isTraining>>)]_vars

\* C24: the stored progress of a model is non-empty only while the model is
\* training, and every stored progress value lies in 0..100.
C24_ProgressInRange ==
  \A m \in Models : \A k \in DOMAIN trainingProgress[m] :
    trainingProgress[m][k] \in 0..100

C24_ProgressOnlyWhileTraining ==
  /\ \A m \in Models : ~isTraining[m] => trainingProgress[m] = <<>>
  /\ C24_ProgressInRange

\* C25: a training that was running when its model was reset has no effect
\* afterwards: as long as no training of the model is started after the reset,
\* the model stays untrained, without metrics and without progress.
\* A suspended train of m with m idle is one that a reset has overtaken:
\* trainModel sets the busy flag when it starts, and only its own end or a
\* reset clears it.
C25_StaysUntrained ==
  [][\A m \in Models :
       (Idle(m) /\ lastCall'.call = "train" /\ lastCall'.model = m)
         => (~isTrained'[m] /\ metrics'[m] = <<>>)]_vars

C25_ResetStopsTraining ==
  [][\A m \in Models :
       (Idle(m) /\ lastCall'.call = "train" /\ lastCall'.model = m) => Idle(m)']_vars

\* C26: a classifier that reports isModelTrained() = true holds a complete set
\* of learned parameters: predict on it does not fail.
C26_TrainedCanPredict ==
  \A m \in Models : isTrained[m] => predict(Cur, m) = "ok"

\* C27: after trainAllModels has given up on a model on its per-model timeout,
\* the training it abandoned does not later store metrics for the model or
\* mark it trained.
\* Abandoned(m): every suspended train of m is one a run has given up on.
Abandoned(m) == OpsOf(m) # {} /\ \A op \in OpsOf(m) : op.caller = -1

C27_AbandonedTrainingIsInert ==
  [][\A m \in Models :
       (Abandoned(m) /\ lastCall'.call = "train" /\ lastCall'.model = m)
         => (metrics'[m] = metrics[m] /\ isTrained'[m] = isTrained[m])]_vars

\* The number of splits on the longest path from the node to a leaf
RECURSIVE TreeDepth(_)
TreeDepth(tree) ==
  IF tree.prediction # <<>> THEN 0
  ELSE LET l == TreeDepth(tree.left[1])
           r == TreeDepth(tree.right[1])
       IN 1 + (IF l > r THEN l ELSE r)

\* Every split at or below the node, which is at the given depth, is made
\* above the max depth, on enough samples, and gives each child a sample.
RECURSIVE SplitsProper(_, _)
SplitsProper(tree, depth) ==
  \/ tree.prediction # <<>>
  \/ /\ depth < maxDepth
     /\ tree.samples >= minSamplesSplit
     /\ tree.left[1].samples >= 1
     /\ tree.right[1].samples >= 1
     /\ tree.left[1].samples + tree.right[1].samples = tree.samples
     /\ SplitsProper(tree.left[1], depth + 1)
     /\ SplitsProper(tree.right[1], depth + 1)

\* C28: buildTree returns a tree for every sample; the tree is no deeper than
\* maxDepth, every split is made on at least minSamplesSplit samples and sends
\* at least one sample to each child, and the root is a leaf exactly when its
\* labels are homogeneous or the chosen feature has a single value.
C28_TreeGrowthEnds ==
  pure.fn = "buildTree" /\ pure.output # <<>>
  => LET samples == pure.input[1]
         pick == pure.input[2]
         tree == pure.output[1]
     IN /\ ValidTree(tree)
        /\ tree.samples = Len(samples)
        /\ TreeDepth(tree) <= maxDepth
        /\ SplitsProper(tree, 0)
        /\ tree.prediction # <<>>
             <=> \/ isHomogeneous(samples)
                 \/ \A k \in 1..Len(samples) : samples[k].v[pick[0]] = samples[1].v[pick[0]]

\* A tree cut at the max depth on mixed labels, next to a leaf made earlier.
C28_Witness ==
  /\ pure.fn = "buildTree" /\ pure.output # <<>>
  /\ TreeDepth(pure.output[1]) = maxDepth
  /\ pure.output[1].left[1].prediction # <<>>
  /\ ~isHomogeneous(pure.input[1])
  /\ \E k \in 1..Len(pure.input[1]) :
        pure.input[1][k].v = pure.input[1][1].v /\ pure.input[1][k].label # pure.input[1][1].label

\* C29: the pooled feature of each filter is the maximum, over the convolved
\* positions, of the activation of that filter, and the pooled features of
\* the banks, in the order of the banks, make up the vector of (kernel sizes
\* * filters) entries that the dense layer is applied to.
C29_PoolsEachFilter ==
  pure.fn = "forward" /\ pure.output # <<>>
  => LET model == pure.input[1]
         embedded == embed(model, pure.input[2])
         out == pure.output[1]
         own(b, f) ==
           MaxOf({convActivation(embedded, model.convLayers[b], i, f) :
                    i \in 1..maxConvSteps(embedded, model.convLayers[b])})
     IN /\ Len(out.pooledFeatures) = Len(kernelSizes) * numFilters
        /\ \A b \in 1..Len(kernelSizes) : \A f \in 1..numFilters :
             out.pooledFeatures[(b - 1) * numFilters + f] = own(b, f)
        /\ out.output =
             SumSeq([i \in 1..denseInputSize |->
                       out.pooledFeatures[i] * model.denseLayer.weights[i]],
                    denseInputSize) + model.denseLayer.biases[1]

\* C30: when as many trained models predict clickbait as predict normal (at
\* least one each), getComparisonSummary called with a text reports the
\* consensus prediction normal with agreement 50.
C30_TieIsNormalAtHalf ==
  pure.fn = "getComparisonSummary" /\ pure.output # <<>>
  => LET votes == pure.input[2]
         normal == Cardinality({m \in Models : votes[m] = "normal"})
         clickbait == Cardinality({m \in Models : votes[m] = "clickbait"})
     IN (pure.input[1] /\ normal = clickbait /\ normal > 0)
          => pure.output[1].consensusPrediction =
               <<[prediction |-> "normal", agreement |-> 50]>>

\* The same with the forest left untrained.
C30_TieWithoutForest ==
  pure.fn = "getComparisonSummary" /\ pure.output # <<>>
  => LET votes == pure.input[2]
         normal == Cardinality({m \in Models : votes[m] = "normal"})
         clickbait == Cardinality({m \in Models : votes[m] = "clickbait"})
     IN (pure.input[1] /\ normal = clickbait /\ normal > 0
           /\ votes["random_forest"] = "untrained")
          => pure.output[1].consensusPrediction =
               <<[prediction |-> "normal", agreement |-> 50]>>

====
